---- MODULE Spec2Model ----
(***************************************************************************)
(* Model of the graph analytics and layout engine of src/main.cpp          *)
(* (class GraphVisualizer): LoadTriples, calculatePageRank,                *)
(* getPageRankMeaning, predictLinksForNode, getConceptualMeaning and       *)
(* UpdatePhysics.                                                          *)
(*                                                                         *)
(* The program computes in IEEE-754 binary32 (float).  A float is modelled *)
(* as a record [s, m, e] with value (-1)^s * m * 2^e, where m = 0 or       *)
(* 2^23 <= m < 2^24.  Every arithmetic operator rounds to nearest, ties to *)
(* even, as the hardware does.  Infinities, NaNs and subnormal numbers do  *)
(* not occur for the magnitudes the arithmetic reaches and are not         *)
(* represented by the arithmetic.  An uninitialised float may hold any 32  *)
(* bits; Indeterminate decodes them, and no operator reads such a value.   *)
(***************************************************************************)
EXTENDS Integers, Sequences, FiniteSets, TLC

(***************************************************************************)
(* binary32 arithmetic                                                     *)
(***************************************************************************)

\* Number of significant bits of a natural number n < 2^30.
RECURSIVE BitLenFrom(_, _)
BitLenFrom(n, k) == IF n < 2^k THEN k ELSE BitLenFrom(n, k + 1)

BitLen(n) == IF n >= 2^24 THEN BitLenFrom(n, 25) ELSE BitLenFrom(n, 0)

FZero(s) == [s |-> s, m |-> 0, e |-> 0]

\* A rounded mantissa q <= 2^24 brought back below 2^24.
FPack(s, q, e) ==
    IF q = 2^24 THEN [s |-> s, m |-> 2^23, e |-> e + 1]
    ELSE [s |-> s, m |-> q, e |-> e]

\* Round to nearest, ties to even: q is the kept part, r the part cut off,
\* half the weight of its first bit; sticky tells that more was cut earlier.
RoundUp(q, r, half, sticky) ==
    r > half \/ (r = half /\ (sticky \/ q % 2 = 1))

FRoundShift(s, n, e, sticky, sh) ==
    FPack(s, (n \div 2^sh)
              + (IF RoundUp(n \div 2^sh, n % 2^sh, 2^(sh - 1), sticky) THEN 1 ELSE 0),
          e + sh)

FRoundLen(s, n, e, sticky, L) ==
    IF L <= 24
    THEN [s |-> s, m |-> n * 2^(24 - L), e |-> e - (24 - L)]
    ELSE FRoundShift(s, n, e, sticky, L - 24)

\* The float nearest to (-1)^s * (n + t) * 2^e, where 0 <= t < 1 and t > 0 iff
\* sticky: round to nearest, ties to even.  n < 2^30.
FRound(s, n, e, sticky) ==
    IF n = 0 THEN FZero(s) ELSE FRoundLen(s, n, e, sticky, BitLen(n))

\* int -> float conversion (exact for |k| < 2^24).
FromInt(k) == FRound(IF k < 0 THEN 1 ELSE 0, IF k < 0 THEN -k ELSE k, 0, FALSE)

FNeg(a) == [a EXCEPT !.s = 1 - a.s]

\* |a| < |b|
FMagLt(a, b) ==
    IF b.m = 0 THEN FALSE
    ELSE IF a.m = 0 THEN TRUE
    ELSE a.e < b.e \/ (a.e = b.e /\ a.m < b.m)

\* a < b (numerically: +0 and -0 are equal)
FLt(a, b) ==
    IF a.m = 0 /\ b.m = 0 THEN FALSE
    ELSE IF a.s # b.s THEN a.s = 1
    ELSE IF a.s = 0 THEN FMagLt(a, b) ELSE FMagLt(b, a)

FGt(a, b) == FLt(b, a)

FGe(a, b) == ~FLt(a, b)

\* The smaller operand's mantissa with three extra bits, shifted right by d
\* places, the bits shifted out or-ed into the last one (guard, round, sticky).
Jam(q, inexact) == IF inexact /\ q % 2 = 0 THEN q + 1 ELSE q

FAlign(m, d) ==
    IF d >= 27 THEN 1 ELSE Jam((m * 8) \div 2^d, (m * 8) % 2^d # 0)

\* hi + lo (sign = 1) or hi - lo (sign = -1) for |hi| >= |lo| > 0, with the
\* sign of hi; an exact difference of zero is +0.
FAddOrdered(hi, lo, sign) ==
    IF sign = -1 /\ hi.m = lo.m /\ hi.e = lo.e THEN FZero(0)
    ELSE FRound(hi.s, hi.m * 8 + sign * FAlign(lo.m, hi.e - lo.e), hi.e - 3, FALSE)

FAdd(a, b) ==
    IF a.m = 0 /\ b.m = 0 THEN FZero(IF a.s = 1 /\ b.s = 1 THEN 1 ELSE 0)
    ELSE IF a.m = 0 THEN b
    ELSE IF b.m = 0 THEN a
    ELSE IF FMagLt(a, b)
         THEN FAddOrdered(b, a, IF a.s = b.s THEN 1 ELSE -1)
         ELSE FAddOrdered(a, b, IF a.s = b.s THEN 1 ELSE -1)

FSub(a, b) == FAdd(a, FNeg(b))

\* The 48-bit product of two mantissas as <<high 24 bits, low 24 bits>>, from
\* their 12-bit halves (a1, a0) and (b1, b0).
Carry(a1, a0, b1, b0, mid) ==
    (a0 * b0 + (mid % 4096) * 4096) \div 16777216

ProductHigh(a1, a0, b1, b0, mid) ==
    a1 * b1 + (mid \div 4096) + Carry(a1, a0, b1, b0, mid)

ProductLow(a0, b0, mid) == (a0 * b0 + (mid % 4096) * 4096) % 16777216

Halves(a1, a0, b1, b0) ==
    <<ProductHigh(a1, a0, b1, b0, a1 * b0 + a0 * b1),
      ProductLow(a0, b0, a1 * b0 + a0 * b1)>>

Product(x, y) == Halves(x \div 4096, x % 4096, y \div 4096, y % 4096)

FMulRound(s, p, e) ==
    FRound(s, p[1] * 4 + (p[2] \div 4194304), e + 22, p[2] % 4194304 # 0)

FMul(a, b) ==
    IF a.m = 0 \/ b.m = 0 THEN FZero(IF a.s = b.s THEN 0 ELSE 1)
    ELSE FMulRound(IF a.s = b.s THEN 0 ELSE 1, Product(a.m, b.m), a.e + b.e)

\* Long division of x by y, x < 2^24 <= 2 * y: `digits` further quotient
\* digits of `bits` bits each (radix = 2^bits) after quotient q, remainder r.
RECURSIVE LongDiv(_, _, _, _, _)
LongDiv(q, r, y, radix, digits) ==
    IF digits = 0 THEN <<q, r>>
    ELSE LongDiv(q * radix + ((r * radix) \div y), (r * radix) % y, y, radix, digits - 1)

FDivRound(s, qr, y, e) ==
    FRound(s, qr[1] * 4 + ((qr[2] * 4) \div y), e - 26, (qr[2] * 4) % y # 0)

\* a / b for b # 0: 26 quotient bits (four digits of six bits and two more).
FDiv(a, b) ==
    IF a.m = 0 THEN FZero(IF a.s = b.s THEN 0 ELSE 1)
    ELSE FDivRound(IF a.s = b.s THEN 0 ELSE 1,
                   LongDiv(a.m \div b.m, a.m % b.m, b.m, 64, 4), b.m, a.e - b.e)

\* Square root, digit by digit: 27 steps bring down the 13 bit pairs of the
\* mantissa (made even-exponent) and 14 pairs of zeros.
RECURSIVE SqrtSteps(_, _, _, _)
SqrtSteps(M, k, root, rem) ==
    IF k = 27 THEN <<root, rem>>
    ELSE IF rem * 4 + (IF k < 13 THEN (M \div 4^(12 - k)) % 4 ELSE 0) >= root * 4 + 1
    THEN SqrtSteps(M, k + 1, root * 2 + 1,
                   rem * 4 + (IF k < 13 THEN (M \div 4^(12 - k)) % 4 ELSE 0) - (root * 4 + 1))
    ELSE SqrtSteps(M, k + 1, root * 2,
                   rem * 4 + (IF k < 13 THEN (M \div 4^(12 - k)) % 4 ELSE 0))

FSqrtRound(rr, e) == FRound(0, rr[1], (e \div 2) - 14, rr[2] # 0)

FSqrt(a) ==
    IF a.m = 0 THEN a
    ELSE IF a.e % 2 = 1
    THEN FSqrtRound(SqrtSteps(a.m * 2, 0, 0, 0), a.e - 1)
    ELSE FSqrtRound(SqrtSteps(a.m, 0, 0, 0), a.e)

\* A decimal literal num/den of the source, as the compiler rounds it.
FLit(num, den) == FDiv(FromInt(num), FromInt(den))

(***************************************************************************)
(* Mixed float/double accumulation.  `acc += d` with acc a float and d a     *)
(* double is computed in binary64 and then rounded to binary32.  The exact  *)
(* sum is formed on bit strings (least significant bit first), rounded to   *)
(* 53 bits and then to 24 bits.  Only non-negative values are accumulated. *)
(***************************************************************************)

\* The w low bits of the natural number n, least significant first.
BitsOf(n, w) == [i \in 1..w |-> (n \div 2^(i - 1)) % 2]

Zeros(k) == [i \in 1..k |-> 0]

RECURSIVE NatOf(_)
NatOf(b) == IF b = <<>> THEN 0 ELSE b[1] + 2 * NatOf(Tail(b))

\* x + y + c on bit strings of one length, a multiple of 24, 24 bits at a time.
RECURSIVE AddChunks(_, _, _)
AddChunks(x, y, c) ==
    IF x = <<>> THEN (IF c = 1 THEN <<1>> ELSE <<>>)
    ELSE LET t == NatOf(SubSeq(x, 1, 24)) + NatOf(SubSeq(y, 1, 24)) + c
         IN BitsOf(t % 16777216, 24)
              \o AddChunks(SubSeq(x, 25, Len(x)), SubSeq(y, 25, Len(y)), t \div 16777216)

AddBits(x, y) ==
    LET n == IF Len(x) > Len(y) THEN Len(x) ELSE Len(y)
        w == 24 * ((n + 23) \div 24)
    IN AddChunks(x \o Zeros(w - Len(x)), y \o Zeros(w - Len(y)), 0)

Highest(ones) == IF ones = {} THEN 0 ELSE CHOOSE i \in ones : \A j \in ones : j <= i

\* Index of the most significant 1 of a bit string, 0 if there is none.
TopBit(b) == Highest({i \in 1..Len(b) : b[i] = 1})

\* A wide number: value NatOf(bits) * 2^e, of any length.
Wide(bits, e) == [bits |-> bits, e |-> e]

FToWide(a) == Wide(BitsOf(a.m, 24), a.e)

\* The exact square of a float, as pow(x, 2) returns it in binary64 (48 bits).
WideProduct(p, e) == Wide(BitsOf(p[2], 24) \o BitsOf(p[1], 24), e)

WideSquare(a) == WideProduct(Product(a.m, a.m), 2 * a.e)

WideAlign(x, y, e) ==
    Wide(AddBits(Zeros(x.e - e) \o x.bits, Zeros(y.e - e) \o y.bits), e)

WideAdd(x, y) == WideAlign(x, y, IF x.e < y.e THEN x.e ELSE y.e)

\* Cut the k low bits of a string whose top bit is t: nearest, ties to even.
WideCut(x, k, t) ==
    Wide(IF x.bits[k] = 1 /\ ((\E i \in 1..(k - 1) : x.bits[i] = 1) \/ x.bits[k + 1] = 1)
         THEN AddBits(SubSeq(x.bits, k + 1, t), <<1>>)
         ELSE SubSeq(x.bits, k + 1, t),
         x.e + k)

WideRoundTop(p, x, t) == IF t <= p THEN x ELSE WideCut(x, t - p, t)

\* Round to at most p significant bits: nearest, ties to even.
WideRound(p, x) == WideRoundTop(p, x, TopBit(x.bits))

WideFloat(r) == FRound(0, NatOf(SubSeq(r.bits, 1, TopBit(r.bits))), r.e, FALSE)

\* double -> float conversion of a non-negative binary64 value.
WideToFloat(x) == WideFloat(WideRound(24, x))

\* (float)((double)acc + d) for a float acc >= 0 and a binary64 d >= 0.
AddDouble(acc, d) == WideToFloat(WideRound(53, WideAdd(FToWide(acc), d)))

\* The binary64 value (h * 2^27 + l) * 2^e.
Double(h, l, e) == Wide(BitsOf(l, 27) \o BitsOf(h, 26), e)

(***************************************************************************)
(* Containers.  A std::vector is a function on 0..n-1, as the source       *)
(* indexes it; a std::map is a function on its key set.                    *)
(***************************************************************************)

Size(v) == Cardinality(DOMAIN v)

\* w, with v evaluated first.  TLC evaluates the arguments of an operator only
\* when they are used; the loops below evaluate each intermediate value as it
\* is produced, as the program does, which keeps the evaluation stack shallow.
Strict(v, w) == IF v = v THEN w ELSE w

PushBack(v, x) == [i \in 0..Size(v) |-> IF i < Size(v) THEN v[i] ELSE x]

MapPut(m, k, x) == [j \in DOMAIN m \cup {k} |-> IF j = k THEN x ELSE m[j]]

\* The elements of a finite set of integers in increasing order (the
\* iteration order of std::set<int> and of std::map<int, float> keys).
RECURSIVE Ascending(_)
Ascending(S) ==
    IF S = {} THEN <<>>
    ELSE LET lo == CHOOSE x \in S : \A y \in S : x <= y
         IN <<lo>> \o Ascending(S \ {lo})

ImVec2(x, y) == [x |-> x, y |-> y]

(***************************************************************************)
(* State of a GraphVisualizer (src/main.cpp:54-67); large_font is never    *)
(* set to a font and is left out.  io is the input state Dear ImGui holds  *)
(* for the current frame.                                                  *)
(***************************************************************************)
VARIABLES
    nodes,              \* vector of Node
    edges,              \* vector of Edge
    adjacency_matrix,   \* vector of vectors of float
    adjacency_list,     \* vector of sets of node indices
    page_rank_scores,   \* map node index -> float
    page_rank_average,  \* float
    page_rank_std_dev,  \* float
    selected_node,      \* int
    velocities,         \* vector of ImVec2
    pan_offset,         \* ImVec2
    is_panning,         \* bool
    pan_drag_start_screen,  \* ImVec2
    pan_offset_start,   \* ImVec2
    io,                 \* mouse and widget state of the current frame
    ret,                \* the last call and what it returned
    steps               \* UpdatePhysics calls since the last LoadTriples

vars == <<nodes, edges, adjacency_matrix, adjacency_list, page_rank_scores,
          page_rank_average, page_rank_std_dev, selected_node, velocities,
          pan_offset, is_panning, pan_drag_start_screen, pan_offset_start, io,
          ret, steps>>

\* The members only the panning code of Render assigns.
pan_drag == <<is_panning, pan_drag_start_screen, pan_offset_start>>

\* struct Node gives radius no initialiser: a default-initialised Node holds
\* in it whatever 32 bits its storage held.  The float with sign bit
\* sign \in 0..1, exponent field exponent \in 0..255 and fraction field
\* fraction \in 0..(2^23 - 1): zero or subnormal for exponent 0, normal
\* for 1..254; for 255 (infinity, NaN) the fields are kept in the layout of
\* a normal number, which no finite float has.
Indeterminate(sign, exponent, fraction) ==
    IF exponent = 0 THEN FRound(sign, fraction, -149, FALSE)
    ELSE [s |-> sign, m |-> 2^23 + fraction, e |-> exponent - 150]

\* struct Node, default-initialised, with its label set; radius is the
\* indeterminate value of the member without initialiser.
NewNode(label, radius) ==
    [position |-> ImVec2(FZero(0), FZero(0)), label |-> label, selected |-> FALSE,
     dragging |-> FALSE, drag_offset |-> ImVec2(FZero(0), FZero(0)),
     radius |-> radius, connection_count |-> 0]

severityToWeight(severity) ==
    IF severity = "high" THEN FLit(8, 10)
    ELSE IF severity = "medium" THEN FLit(4, 10)
    ELSE IF severity = "low" THEN FLit(1, 10)
    ELSE FZero(0)

(***************************************************************************)
(* LoadTriples                                                             *)
(***************************************************************************)

\* Faulty variant of AddLabel: the lookup in node_map is skipped, so that every
\* mention of a label makes a node.
AddLabelAlways(st, label, radius) ==
    [node_map        |-> MapPut(st.node_map, label, st.next_node_index),
     next_node_index |-> st.next_node_index + 1,
     nodes           |-> PushBack(st.nodes, NewNode(label, radius))]

\* One label of the first loop: a label not yet in node_map gets the next
\* index and a new node; radius is the indeterminate radius of the Node the
\* branch declares.
AddLabel(st, label, radius) ==
    IF label \in DOMAIN st.node_map THEN st
    ELSE [node_map        |-> MapPut(st.node_map, label, st.next_node_index),
          next_node_index |-> st.next_node_index + 1,
          nodes           |-> PushBack(st.nodes, NewNode(label, radius))]

\* The first loop over the triples: subject, then object, of each triple.
\* The first loop.  Its body declares two automatic Nodes, one for the
\* subject (line 92) and one for the object (line 98); each occupies the same
\* storage in every iteration and nothing writes its radius, so that the
\* radius keeps the bits the storage held on entry: uninit[1] for the
\* subject's Node and uninit[2] for the object's.
RECURSIVE ScanLabels(_, _, _)
ScanLabels(triples, uninit, st) ==
    IF triples = <<>> THEN st
    ELSE LET next == AddLabel(AddLabel(st, Head(triples).node_name, uninit[1]),
                              Head(triples).name_of_component, uninit[2])
         IN Strict(next, ScanLabels(Tail(triples), uninit, next))

\* Faulty variant of Link: the test from_idx != to_idx is missing.
LinkAny(g, from_idx, to_idx, predicate, weight) ==
    [edges |-> PushBack(g.edges, [from |-> from_idx, to |-> to_idx,
                                  predicate |-> predicate]),
     adjacency_matrix |->
         [g.adjacency_matrix EXCEPT ![from_idx][to_idx] = weight,
                                    ![to_idx][from_idx] = weight],
     adjacency_list |->
         [g.adjacency_list EXCEPT ![from_idx] = @ \cup {to_idx},
                                  ![to_idx] = @ \cup {from_idx}],
     nodes |->
         [g.nodes EXCEPT ![from_idx].connection_count = @ + 1,
                         ![to_idx].connection_count = @ + 1]]

\* Faulty variant of Link: a weight already in the matrix is kept, so the
\* first triple with a weight decides instead of the last.
LinkKeepingWeight(g, from_idx, to_idx, predicate, weight) ==
    IF from_idx # to_idx
    THEN [edges |-> PushBack(g.edges, [from |-> from_idx, to |-> to_idx,
                                      predicate |-> predicate]),
          adjacency_matrix |->
              [g.adjacency_matrix EXCEPT
                  ![from_idx][to_idx] = IF @.m = 0 THEN weight ELSE @,
                  ![to_idx][from_idx] = IF @.m = 0 THEN weight ELSE @],
          adjacency_list |->
              [g.adjacency_list EXCEPT ![from_idx] = @ \cup {to_idx},
                                       ![to_idx] = @ \cup {from_idx}],
          nodes |->
              [g.nodes EXCEPT ![from_idx].connection_count = @ + 1,
                              ![to_idx].connection_count = @ + 1]]
    ELSE g

\* The body of the second loop for one triple, its indices looked up.
Link(g, from_idx, to_idx, predicate, weight) ==
    IF from_idx # to_idx
    THEN [edges |-> PushBack(g.edges, [from |-> from_idx, to |-> to_idx,
                                      predicate |-> predicate]),
          adjacency_matrix |->
              [g.adjacency_matrix EXCEPT ![from_idx][to_idx] = weight,
                                         ![to_idx][from_idx] = weight],
          adjacency_list |->
              [g.adjacency_list EXCEPT ![from_idx] = @ \cup {to_idx},
                                       ![to_idx] = @ \cup {from_idx}],
          nodes |->
              [g.nodes EXCEPT ![from_idx].connection_count = @ + 1,
                              ![to_idx].connection_count = @ + 1]]
    ELSE g

\* One triple of the second loop.
AddEdge(g, node_map, triple) ==
    Link(g, node_map[triple.node_name], node_map[triple.name_of_component],
         triple.edge_name, severityToWeight(triple.severity))

RECURSIVE AddEdges(_, _, _)
AddEdges(triples, node_map, g) ==
    IF triples = <<>> THEN g
    ELSE LET next == AddEdge(g, node_map, Head(triples))
         IN Strict(next, AddEdges(Tail(triples), node_map, next))

\* max_connections of the last loops.
MaxConnections(ns) ==
    IF \A i \in DOMAIN ns : ns[i].connection_count <= 0 THEN 0
    ELSE CHOOSE c \in {ns[i].connection_count : i \in DOMAIN ns} :
             \A i \in DOMAIN ns : ns[i].connection_count <= c

NodeRadius(connection_count, max_connections) ==
    IF max_connections > 0
    THEN FAdd(FromInt(25),
              FMul(FromInt(25), FDiv(FromInt(connection_count), FromInt(max_connections))))
    ELSE FromInt(25)

\* The random initial position of a node; rx and ry are two results of std::rand().
RandomPosition(rx, ry) ==
    ImVec2(FAdd(FromInt(100), FromInt(rx % 600)), FAdd(FromInt(100), FromInt(ry % 400)))

\* The nodes after the placement loop; rnd[i] is the pair of std::rand()
\* results drawn for node i.
Place(ns, rnd) ==
    [i \in DOMAIN ns |->
        [ns[i] EXCEPT !.position = RandomPosition(rnd[i][1], rnd[i][2]),
                      !.connection_count = 0]]

\* The containers as sized before the second loop.
EmptyGraph(ns) ==
    [edges |-> <<>>,
     adjacency_matrix |-> [i \in DOMAIN ns |-> [j \in DOMAIN ns |-> FZero(0)]],
     adjacency_list |-> [i \in DOMAIN ns |-> {}],
     nodes |-> ns]

\* The radius loop.
SetRadii(g, max_connections) ==
    [g EXCEPT !.nodes =
        [i \in DOMAIN g.nodes |->
            [g.nodes[i] EXCEPT !.radius =
                NodeRadius(g.nodes[i].connection_count, max_connections)]]]

Resize(g) == SetRadii(g, MaxConnections(g.nodes))

Connect(triples, rnd, scan) ==
    Resize(AddEdges(triples, scan.node_map, EmptyGraph(Place(scan.nodes, rnd))))

NoLabels == [node_map |-> <<>>, next_node_index |-> 0, nodes |-> <<>>]

\* The graph LoadTriples builds; uninit is the pair of indeterminate radii of
\* the two Nodes the first loop declares.
BuildGraph(triples, rnd, uninit) ==
    Connect(triples, rnd, ScanLabels(triples, uninit, NoLabels))

\* Faulty variant of Install: page_rank_scores.clear() is missing.
InstallKeepingScores(g) ==
    /\ nodes' = g.nodes
    /\ edges' = g.edges
    /\ adjacency_matrix' = g.adjacency_matrix
    /\ adjacency_list' = g.adjacency_list
    /\ velocities' = [i \in DOMAIN g.nodes |-> ImVec2(FZero(0), FZero(0))]
    /\ selected_node' = -1
    /\ pan_offset' = ImVec2(FZero(0), FZero(0))
    /\ UNCHANGED <<page_rank_scores, page_rank_average, page_rank_std_dev, pan_drag>>

\* Contents of the storage of the two Nodes of the first loop on entry to
\* LoadTriples, as pairs of radii: any two 32-bit patterns can be there; these
\* are the ones drawn.  0x00000000 twice (clean stack), 0x00007ffc twice
\* (subnormal), 0x3f800000 twice (1.0), and 0xdeadbeef with 0xc2f00000
\* (negative, different in the two Nodes).
StackBits ==
    {<<Indeterminate(0, 0, 0), Indeterminate(0, 0, 0)>>,
     <<Indeterminate(0, 0, 32764), Indeterminate(0, 0, 32764)>>,
     <<Indeterminate(0, 127, 0), Indeterminate(0, 127, 0)>>,
     <<Indeterminate(1, 189, 2997999), Indeterminate(1, 133, 7340032)>>}

\* The members LoadTriples assigns, given the graph it builds.
Install(g) ==
    /\ nodes' = g.nodes
    /\ edges' = g.edges
    /\ adjacency_matrix' = g.adjacency_matrix
    /\ adjacency_list' = g.adjacency_list
    /\ velocities' = [i \in DOMAIN g.nodes |-> ImVec2(FZero(0), FZero(0))]
    /\ selected_node' = -1
    /\ page_rank_scores' = <<>>
    /\ pan_offset' = ImVec2(FZero(0), FZero(0))
    /\ UNCHANGED <<page_rank_average, page_rank_std_dev, pan_drag>>

LoadTriples(triples, rnd) ==
    /\ \E uninit \in StackBits :
           Install(BuildGraph(triples, rnd, uninit))
    /\ ret' = [op |-> "LoadTriples", triples |-> triples]
    /\ steps' = 0
    /\ UNCHANGED io

(***************************************************************************)
(* calculatePageRank, getPageRankMeaning                                   *)
(***************************************************************************)

damping_factor == FLit(85, 100)

\* The pairs <<i, neighbor_idx>> in the order the inner loops visit them.
RECURSIVE NeighborVisits(_, _, _)
NeighborVisits(adj, i, n) ==
    IF i >= n THEN <<>>
    ELSE [k \in 1..Cardinality(adj[i]) |-> <<i, Ascending(adj[i])[k]>>]
           \o NeighborVisits(adj, i + 1, n)

\* new_ranks[neighbor_idx] += damping_factor * (current_ranks[i] / out_degree[i])
Contribute(i, neighbor_idx, current_ranks, out_degree, new_ranks) ==
    IF out_degree[i] > 0
    THEN [new_ranks EXCEPT ![neighbor_idx] =
             FAdd(@, FMul(damping_factor,
                          FDiv(current_ranks[i], FromInt(out_degree[i]))))]
    ELSE new_ranks

\* The accumulation loop of one iteration over the visits not yet made.
RECURSIVE Distribute(_, _, _, _)
Distribute(visits, current_ranks, out_degree, new_ranks) ==
    IF visits = <<>> THEN new_ranks
    ELSE LET next == Contribute(Head(visits)[1], Head(visits)[2], current_ranks,
                                out_degree, new_ranks)
         IN Strict(next, Distribute(Tail(visits), current_ranks, out_degree, next))

\* Faulty variant of BaseRanks: new_ranks starts from 0.0f.
ZeroRanks(current_ranks) == [i \in DOMAIN current_ranks |-> FZero(0)]

\* new_ranks[i] = 1.0f - damping_factor, for every node.
BaseRanks(current_ranks) ==
    [i \in DOMAIN current_ranks |-> FSub(FromInt(1), damping_factor)]

\* current_ranks after the iterations iter, iter+1, ..., 19.
RECURSIVE Iterate(_, _, _, _)
Iterate(iter, visits, out_degree, current_ranks) ==
    IF iter >= 20 THEN current_ranks
    ELSE LET next == Distribute(visits, current_ranks, out_degree,
                                BaseRanks(current_ranks))
         IN Strict(next, Iterate(iter + 1, visits, out_degree, next))

\* sum of the ranks i, i+1, ..., n-1 added to sum, in key order.
RECURSIVE SumRanks(_, _, _, _)
SumRanks(ranks, i, n, sum) ==
    IF i >= n THEN sum
    ELSE LET next == FAdd(sum, ranks[i]) IN Strict(next, SumRanks(ranks, i + 1, n, next))

\* variance_sum += pow(rank - average, 2): the square is a double.
RECURSIVE SumSquares(_, _, _, _, _)
SumSquares(ranks, average, i, n, variance_sum) ==
    IF i >= n THEN variance_sum
    ELSE LET next == AddDouble(variance_sum, WideSquare(FSub(ranks[i], average)))
         IN Strict(next, SumSquares(ranks, average, i + 1, n, next))

\* The standard deviation, given the scores and their average.
Deviation(ranks, average, n) ==
    FSqrt(FDiv(SumSquares(ranks, average, 0, n, FZero(0)), FromInt(n)))

Summary(ranks, average, n) ==
    [scores |-> ranks, average |-> average, std_dev |-> Deviation(ranks, average, n)]

Statistics(ranks, n) ==
    Summary(ranks, FDiv(SumRanks(ranks, 0, n, FZero(0)), FromInt(n)), n)

\* What calculatePageRank computes for n > 0 nodes with adjacency sets adj.
PageRank(adj, n) ==
    Statistics(Iterate(0, NeighborVisits(adj, 0, n),
                       [i \in 0..(n - 1) |-> Cardinality(adj[i])],
                       [i \in 0..(n - 1) |-> FDiv(FromInt(1), FromInt(n))]),
               n)

StoreRanks(r) ==
    /\ page_rank_scores' = r.scores
    /\ page_rank_average' = r.average
    /\ page_rank_std_dev' = r.std_dev

calculatePageRank ==
    /\ IF Size(nodes) = 0
       THEN UNCHANGED <<page_rank_scores, page_rank_average, page_rank_std_dev>>
       ELSE StoreRanks(PageRank(adjacency_list, Size(nodes)))
    /\ ret' = [op |-> "calculatePageRank"]
    /\ UNCHANGED <<nodes, edges, adjacency_matrix, adjacency_list, selected_node,
                   velocities, pan_offset, pan_drag, io, steps>>

\* Faulty variant of RankMeaning: the comparisons are >= and <=.
RankMeaningInclusive(score, average, std_dev) ==
    IF std_dev.m = 0 THEN "Medium"
    ELSE IF FGe(score, FAdd(average, std_dev)) THEN "High"
    ELSE IF ~FGt(score, FSub(average, std_dev)) THEN "Low"
    ELSE "Medium"

\* getPageRankMeaning(score) against a given average and standard deviation.
RankMeaning(score, average, std_dev) ==
    IF std_dev.m = 0 THEN "Medium"
    ELSE IF FGt(score, FAdd(average, std_dev)) THEN "High"
    ELSE IF FLt(score, FSub(average, std_dev)) THEN "Low"
    ELSE "Medium"

getPageRankMeaning(score) == RankMeaning(score, page_rank_average, page_rank_std_dev)

(***************************************************************************)
(* predictLinksForNode, getConceptualMeaning                               *)
(***************************************************************************)

\* The double 1.0f / log(size) for a set size of 2..9 (log of <cmath>).
InvLog(size) ==
    CASE size = 2 -> Double(48408812, 86737662, -52)
      [] size = 3 -> Double(61085120, 62701906, -53)
      [] size = 4 -> Double(48408812, 86737662, -53)
      [] size = 5 -> Double(41697081, 83457911, -53)
      [] size = 6 -> Double(37454170, 18009662, -53)
      [] size = 7 -> Double(34487133, 129911626, -53)
      [] size = 8 -> Double(64545083, 70910974, -54)
      [] size = 9 -> Double(61085120, 62701906, -54)

\* The pairs <<neighbor_idx, grand_neighbor_idx>> in the order the loops of
\* predictLinksForNode visit them.
RECURSIVE GrandVisits(_, _)
GrandVisits(adj, neighbors) ==
    IF neighbors = <<>> THEN <<>>
    ELSE [k \in 1..Cardinality(adj[Head(neighbors)]) |->
             <<Head(neighbors), Ascending(adj[Head(neighbors)])[k]>>]
           \o GrandVisits(adj, Tail(neighbors))

\* adamic_adar_scores[grand_neighbor_idx], default-inserted as 0.0f.
ScoreAt(scores, grand_neighbor_idx) ==
    IF grand_neighbor_idx \in DOMAIN scores THEN scores[grand_neighbor_idx] ELSE FZero(0)

\* The score one visit gives its grand-neighbour: the weight is taken from the
\* size of adjacency_list[grand_neighbor_idx].
ScoreIncrement(adj, node_index, grand_neighbor_idx, scores) ==
    IF Cardinality(adj[grand_neighbor_idx]) > 1
    THEN AddDouble(ScoreAt(scores, grand_neighbor_idx),
                   InvLog(Cardinality(adj[grand_neighbor_idx])))
    ELSE FAdd(ScoreAt(scores, grand_neighbor_idx), FromInt(1))

\* Faulty variant of Visit: direct neighbours of node_index are not excluded.
VisitAny(adj, node_index, grand_neighbor_idx, scores) ==
    IF grand_neighbor_idx # node_index
    THEN MapPut(scores, grand_neighbor_idx,
                ScoreIncrement(adj, node_index, grand_neighbor_idx, scores))
    ELSE scores

\* The body of the inner loop for one grand-neighbour.
Visit(adj, node_index, grand_neighbor_idx, scores) ==
    IF grand_neighbor_idx # node_index /\ grand_neighbor_idx \notin adj[node_index]
    THEN MapPut(scores, grand_neighbor_idx,
                ScoreIncrement(adj, node_index, grand_neighbor_idx, scores))
    ELSE scores

\* adamic_adar_scores after the visits.
RECURSIVE Accumulate(_, _, _, _)
Accumulate(visits, adj, node_index, scores) ==
    IF visits = <<>> THEN scores
    ELSE LET next == Visit(adj, node_index, Head(visits)[2], scores)
         IN Strict(next, Accumulate(Tail(visits), adj, node_index, next))

AdamicAdarScores(adj, node_index) ==
    Accumulate(GrandVisits(adj, Ascending(adj[node_index])), adj, node_index, <<>>)

\* max_score of a score map, from 0.0f.
RECURSIVE MaxScore(_, _, _)
MaxScore(scores, keys, max_score) ==
    IF keys = <<>> THEN max_score
    ELSE LET next == IF FGt(scores[Head(keys)], max_score) THEN scores[Head(keys)]
                     ELSE max_score
         IN Strict(next, MaxScore(scores, Tail(keys), next))

\* Faulty variant of Normalize: the division by max_score is missing.
NormalizeRaw(scores, keys, max_score) ==
    IF FGt(max_score, FZero(0))
    THEN [k \in 0..(Len(keys) - 1) |->
             [first |-> keys[k + 1], second |-> scores[keys[k + 1]]]]
    ELSE <<>>

\* The division loop and the copy into the vector, in map order.
Normalize(scores, keys, max_score) ==
    IF FGt(max_score, FZero(0))
    THEN [k \in 0..(Len(keys) - 1) |->
             [first |-> keys[k + 1], second |-> FDiv(scores[keys[k + 1]], max_score)]]
    ELSE <<>>

NormalizeKeys(scores, keys) == Normalize(scores, keys, MaxScore(scores, keys, FZero(0)))

NormalizeScores(scores) == NormalizeKeys(scores, Ascending(DOMAIN scores))

\* The normalised predictions, in map order, before the sort.
NormalizedPredictions(adj, node_index) ==
    NormalizeScores(AdamicAdarScores(adj, node_index))

\* std::sort with the comparator a.second > b.second leaves the order of
\* equal scores unspecified: every arrangement in which no later entry is
\* greater than an earlier one is a possible result.
SortedByScore(preds) ==
    LET n == Size(preds) IN
    {[k \in 0..(n - 1) |-> preds[perm[k]]] :
        perm \in {f \in [0..(n - 1) -> 0..(n - 1)] :
                     /\ \A a, b \in 0..(n - 1) : a # b => f[a] # f[b]
                     /\ \A a, b \in 0..(n - 1) :
                            a < b => ~FGt(preds[f[b]].second, preds[f[a]].second)}}

\* The vectors predictLinksForNode(node_index) may return.
PredictLinks(adj, n, node_index) ==
    IF node_index < 0 \/ node_index >= n THEN {<<>>}
    ELSE SortedByScore(NormalizedPredictions(adj, node_index))

predictLinksForNode(node_index) ==
    /\ \E predictions \in PredictLinks(adjacency_list, Size(nodes), node_index) :
           ret' = [op |-> "predictLinksForNode", node_index |-> node_index,
                   predictions |-> predictions]
    /\ UNCHANGED <<nodes, edges, adjacency_matrix, adjacency_list, page_rank_scores,
                   page_rank_average, page_rank_std_dev, selected_node, velocities,
                   pan_offset, pan_drag, io, steps>>

getConceptualMeaning(score) ==
    IF FGe(score, FLit(8, 10)) THEN "Strong"
    ELSE IF FGe(score, FLit(5, 10)) THEN "Moderate"
    ELSE IF FGe(score, FZero(0)) THEN "Weak"
    ELSE ""

(***************************************************************************)
(* UpdatePhysics                                                           *)
(***************************************************************************)

time_step == FLit(5, 10)

repulsion_strength == FromInt(2000)

attraction_strength == FLit(2, 100)

damping == FLit(9, 10)

rest_length == FromInt(100)

\* (dx / dist) * force, (dy / dist) * force
ForceVector(dx, dy, dist, force) ==
    ImVec2(FMul(FDiv(dx, dist), force), FMul(FDiv(dy, dist), force))

\* std::max(x, 1.0f)
AtLeastOne(x) == IF FLt(x, FromInt(1)) THEN FromInt(1) ELSE x

RepulsionAt(dx, dy, dist_sq) ==
    ForceVector(dx, dy, FSqrt(dist_sq), FDiv(repulsion_strength, dist_sq))

RepulsionAlong(dx, dy) ==
    RepulsionAt(dx, dy, AtLeastOne(FAdd(FMul(dx, dx), FMul(dy, dy))))

\* The force vector the repulsion loop computes for the positions pi, pj.
RepulsionVector(pi, pj) == RepulsionAlong(FSub(pi.x, pj.x), FSub(pi.y, pj.y))

\* Faulty variant of AttractionAt: the spring force has the opposite sign,
\* (100.0f - dist) * attraction_strength.
AttractionAtReversed(dx, dy, dist) ==
    ForceVector(dx, dy, dist, FMul(FSub(rest_length, dist), attraction_strength))

AttractionAt(dx, dy, dist) ==
    ForceVector(dx, dy, dist, FMul(FSub(dist, rest_length), attraction_strength))

AttractionAlong(dx, dy) ==
    AttractionAt(dx, dy, AtLeastOne(FSqrt(FAdd(FMul(dx, dx), FMul(dy, dy)))))

\* The force vector the attraction loop computes for an edge from pf to pt.
AttractionVector(pf, pt) == AttractionAlong(FSub(pt.x, pf.x), FSub(pt.y, pf.y))

VecAdd(v, f) == ImVec2(FAdd(v.x, f.x), FAdd(v.y, f.y))

VecSub(v, f) == ImVec2(FSub(v.x, f.x), FSub(v.y, f.y))

\* velocities[i] += f; velocities[j] -= f
Push(vel, i, j, f) == [vel EXCEPT ![i] = VecAdd(@, f), ![j] = VecSub(@, f)]

\* The repulsion loops from the pair (i, j) on.
RECURSIVE Repel(_, _, _, _)
Repel(ns, i, j, vel) ==
    IF i >= Size(ns) THEN vel
    ELSE IF ns[i].dragging \/ j >= Size(ns) THEN Repel(ns, i + 1, i + 2, vel)
    ELSE IF ns[j].dragging THEN Repel(ns, i, j + 1, vel)
    ELSE LET next == Push(vel, i, j, RepulsionVector(ns[i].position, ns[j].position))
         IN Strict(next, Repel(ns, i, j + 1, next))

\* Faulty variant of PullTo: the test of the dragging flag is missing.
PullToAlways(ns, to, vel, f) == [vel EXCEPT ![to] = VecSub(@, f)]

\* The two guarded updates of the attraction loop for one edge.
PullTo(ns, to, vel, f) ==
    IF ~ns[to].dragging THEN [vel EXCEPT ![to] = VecSub(@, f)] ELSE vel

PullFrom(ns, from, vel, f) ==
    IF ~ns[from].dragging THEN [vel EXCEPT ![from] = VecAdd(@, f)] ELSE vel

Pull(ns, from, to, vel, f) == PullTo(ns, to, PullFrom(ns, from, vel, f), f)

\* The attraction loop from edge k on.
RECURSIVE Attract(_, _, _, _)
Attract(ns, es, k, vel) ==
    IF k >= Size(es) THEN vel
    ELSE LET next == Pull(ns, es[k].from, es[k].to, vel,
                          AttractionVector(ns[es[k].from].position,
                                           ns[es[k].to].position))
         IN Strict(next, Attract(ns, es, k + 1, next))

\* The integration loop, given the velocities after the force loops.
Integrate(ns, v) ==
    [nodes |-> [i \in DOMAIN ns |->
                   IF ~ns[i].dragging
                   THEN [ns[i] EXCEPT !.position =
                            ImVec2(FAdd(@.x, FMul(v[i].x, time_step)),
                                   FAdd(@.y, FMul(v[i].y, time_step)))]
                   ELSE ns[i]],
     velocities |-> [i \in DOMAIN ns |->
                        IF ~ns[i].dragging
                        THEN ImVec2(FMul(v[i].x, damping), FMul(v[i].y, damping))
                        ELSE v[i]]]

\* The nodes and velocities after one UpdatePhysics.
PhysicsStep(ns, es, vel) == Integrate(ns, Attract(ns, es, 0, Repel(ns, 0, 1, vel)))

(***************************************************************************)
(* Render: the members it assigns.  v is a record of the members Render    *)
(* may assign, in is the input state of the frame (io).                    *)
(***************************************************************************)

\* The members Render may assign.
View ==
    [nodes |-> nodes, velocities |-> velocities, selected_node |-> selected_node,
     pan_offset |-> pan_offset, is_panning |-> is_panning,
     pan_drag_start_screen |-> pan_drag_start_screen,
     pan_offset_start |-> pan_offset_start]

\* "Reset Layout": new random positions, zero velocities, no selection, no pan.
ResetLayout(v, rnd) ==
    [v EXCEPT !.nodes = [i \in DOMAIN v.nodes |->
                            [v.nodes[i] EXCEPT !.position =
                                RandomPosition(rnd[i][1], rnd[i][2])]],
              !.velocities = [i \in DOMAIN v.nodes |-> ImVec2(FZero(0), FZero(0))],
              !.selected_node = -1,
              !.pan_offset = ImVec2(FZero(0), FZero(0))]

\* "Clear Selection"
ClearSelection(v) ==
    [v EXCEPT !.selected_node = -1,
              !.nodes = [i \in DOMAIN v.nodes |-> [v.nodes[i] EXCEPT !.selected = FALSE]]]

\* The two buttons at the top of the window.
Buttons(v, in, rnd) ==
    IF in.button = "Reset Layout" THEN ResetLayout(v, rnd)
    ELSE IF in.button = "Clear Selection" THEN ClearSelection(v)
    ELSE v

\* Scrolling pans by 30 units per wheel step.
Scroll(v, in) ==
    IF in.MouseWheel.m # 0 \/ in.MouseWheelH.m # 0
    THEN [v EXCEPT !.pan_offset =
             ImVec2(FAdd(v.pan_offset.x, FMul(in.MouseWheelH, FromInt(30))),
                    FAdd(v.pan_offset.y, FMul(in.MouseWheel, FromInt(30))))]
    ELSE v

world_to_screen(in, pan, world) ==
    ImVec2(FAdd(FAdd(in.CursorScreenPos.x, world.x), pan.x),
           FAdd(FAdd(in.CursorScreenPos.y, world.y), pan.y))

screen_to_world(in, pan, screen) ==
    ImVec2(FSub(FSub(screen.x, in.CursorScreenPos.x), pan.x),
           FSub(FSub(screen.y, in.CursorScreenPos.y), pan.y))

\* sqrtf(pow(p.x - q.x, 2) + pow(p.y - q.y, 2)): the squares and their sum
\* are binary64, the argument of sqrtf is converted to float.
DistToMouse(p, q) ==
    FSqrt(WideToFloat(WideRound(53, WideAdd(WideSquare(FSub(p.x, q.x)),
                                            WideSquare(FSub(p.y, q.y))))))

\* dist_to_mouse < nodes[i].radius
MouseOver(v, in, i) ==
    FLt(DistToMouse(in.MousePos, world_to_screen(in, v.pan_offset, v.nodes[i].position)),
        v.nodes[i].radius)

\* hover_node: the first node from i on under the mouse, or -1.
RECURSIVE HoverNode(_, _, _)
HoverNode(v, in, i) ==
    IF i >= Size(v.nodes) THEN -1
    ELSE IF MouseOver(v, in, i) THEN i
    ELSE HoverNode(v, in, i + 1)

\* a <= b on floats
FLe(a, b) == ~FLt(b, a)

\* The canvas is the content region without the 300 units of the summary.
MouseInCanvas(in) ==
    /\ FLe(in.CursorScreenPos.x, in.MousePos.x)
    /\ FLe(in.MousePos.x,
           FAdd(in.CursorScreenPos.x, FSub(in.canvas_size.x, FromInt(300))))
    /\ FLe(in.CursorScreenPos.y, in.MousePos.y)
    /\ FLe(in.MousePos.y, FAdd(in.CursorScreenPos.y, in.canvas_size.y))

\* A left or right click on empty canvas starts panning.
StartPan(v, in) ==
    IF (in.clicked0 \/ in.clicked1) /\ MouseInCanvas(in) /\ HoverNode(v, in, 0) = -1
    THEN [v EXCEPT !.is_panning = TRUE,
                   !.pan_drag_start_screen = in.MousePos,
                   !.pan_offset_start = v.pan_offset]
    ELSE v

DragPan(v, in) ==
    IF v.is_panning /\ (in.dragging0 \/ in.dragging1)
    THEN [v EXCEPT !.pan_offset =
             ImVec2(FAdd(v.pan_offset_start.x,
                         FSub(in.MousePos.x, v.pan_drag_start_screen.x)),
                    FAdd(v.pan_offset_start.y,
                         FSub(in.MousePos.y, v.pan_drag_start_screen.y)))]
    ELSE v

StopPan(v, in) ==
    IF v.is_panning /\ ((in.released0 /\ ~in.down1) \/ (~in.down0 /\ ~in.down1))
    THEN [v EXCEPT !.is_panning = FALSE]
    ELSE v

Pan(v, in) == StopPan(DragPan(StartPan(Scroll(v, in), in), in), in)

\* A left click on a node that is not being dragged pins and selects it.
Grab(v, in, i, node_screen_pos) ==
    [v EXCEPT !.nodes = [k \in DOMAIN v.nodes |->
                            IF k = i
                            THEN [v.nodes[i] EXCEPT
                                     !.dragging = TRUE,
                                     !.drag_offset =
                                         ImVec2(FSub(in.MousePos.x, node_screen_pos.x),
                                                FSub(in.MousePos.y, node_screen_pos.y)),
                                     !.selected = TRUE]
                            ELSE [v.nodes[k] EXCEPT !.selected = FALSE]],
              !.selected_node = i,
              !.is_panning = FALSE]

GrabIfClicked(v, in, i) ==
    IF in.clicked0 /\ MouseOver(v, in, i) /\ ~v.nodes[i].dragging
    THEN Grab(v, in, i, world_to_screen(in, v.pan_offset, v.nodes[i].position))
    ELSE v

\* nodes[i].position = raw_world - drag_offset
DragTo(node, raw_world) ==
    [node EXCEPT !.position = ImVec2(FSub(raw_world.x, node.drag_offset.x),
                                     FSub(raw_world.y, node.drag_offset.y))]

\* A pinned node follows the mouse while it is dragged and is released with
\* the button.
DragOrRelease(v, in, i) ==
    IF ~v.nodes[i].dragging THEN v
    ELSE IF in.dragging0
    THEN [v EXCEPT !.nodes[i] = DragTo(@, screen_to_world(in, v.pan_offset, in.MousePos))]
    ELSE IF in.released0 THEN [v EXCEPT !.nodes[i].dragging = FALSE]
    ELSE v

\* The radius Render gives a node: between 15 and 40.
DrawnRadius(connection_count, max_connections) ==
    FAdd(FromInt(15),
         FMul(FSub(FromInt(40), FromInt(15)),
              IF max_connections > 0
              THEN FDiv(FromInt(connection_count), FromInt(max_connections))
              ELSE FZero(0)))

SetRadius(v, i, radius) ==
    [v EXCEPT !.nodes[i].radius = IF FLt(radius, FromInt(15)) THEN FromInt(15) ELSE radius]

\* One iteration of the node loop.
DrawNode(v, in, i, max_connections) ==
    SetRadius(DragOrRelease(GrabIfClicked(v, in, i), in, i), i,
              DrawnRadius(v.nodes[i].connection_count, max_connections))

\* The node loop from node i on.
RECURSIVE DrawNodes(_, _, _, _)
DrawNodes(v, in, i, max_connections) ==
    IF i >= Size(v.nodes) THEN v
    ELSE DrawNodes(DrawNode(v, in, i, max_connections), in, i + 1, max_connections)

\* The members after Render.
Drawn(v, in) == DrawNodes(Pan(v, in), in, 0, MaxConnections(v.nodes))

\* The table of predicted links Render shows for the selected node.
ShownPredictions(v) ==
    IF v.selected_node >= 0 /\ v.selected_node < Size(v.nodes)
    THEN PredictLinks(adjacency_list, Size(v.nodes), v.selected_node)
    ELSE {<<>>}

Show(v) ==
    /\ nodes' = v.nodes
    /\ velocities' = v.velocities
    /\ selected_node' = v.selected_node
    /\ pan_offset' = v.pan_offset
    /\ is_panning' = v.is_panning
    /\ pan_drag_start_screen' = v.pan_drag_start_screen
    /\ pan_offset_start' = v.pan_offset_start
    /\ \E predictions \in ShownPredictions(v) :
           ret' = [op |-> "Render", predictions |-> predictions]

\* rnd: the results of std::rand() "Reset Layout" would draw.
Render(rnd) ==
    /\ io.frame > 0
    /\ Show(Drawn(Buttons(View, io, rnd), io))
    /\ UNCHANGED <<edges, adjacency_matrix, adjacency_list, page_rank_scores,
                   page_rank_average, page_rank_std_dev, io, steps>>

(***************************************************************************)
(* The state machine.  ret records the last call, its arguments and what   *)
(* it returned.                                                            *)
(***************************************************************************)

\* Bounds of the model.
MaxTriples == 2

MaxSteps == 2

NumLayouts == 2

MaxBuildTriples == 3

MaxRankEdges == 5

MaxPredictEdges == 5

NumBases == 3

NumOffsets == 12

MaxFrames == 2

MaxWeightTriples == 2

\* The input state before the first frame: no button is down.  Render runs
\* only after a first NewFrame, so the other fields are never read.
NoInput == [frame |-> 0, down0 |-> FALSE, down1 |-> FALSE]

\* The constructor: an empty graph and no rank statistics.
Init ==
    /\ nodes = <<>>
    /\ edges = <<>>
    /\ adjacency_matrix = <<>>
    /\ adjacency_list = <<>>
    /\ page_rank_scores = <<>>
    /\ page_rank_average = FZero(0)
    /\ page_rank_std_dev = FZero(0)
    /\ selected_node = -1
    /\ velocities = <<>>
    /\ pan_offset = ImVec2(FZero(0), FZero(0))
    /\ is_panning = FALSE
    /\ pan_drag_start_screen = ImVec2(FZero(0), FZero(0))
    /\ pan_offset_start = ImVec2(FZero(0), FZero(0))
    /\ io = NoInput
    /\ ret = [op |-> "GraphVisualizer"]
    /\ steps = 0

Move(r) ==
    /\ nodes' = r.nodes
    /\ velocities' = r.velocities

UpdatePhysics ==
    /\ steps < MaxSteps
    /\ Move(PhysicsStep(nodes, edges, velocities))
    /\ ret' = [op |-> "UpdatePhysics"]
    /\ steps' = steps + 1
    /\ UNCHANGED <<edges, adjacency_matrix, adjacency_list, page_rank_scores,
                   page_rank_average, page_rank_std_dev, selected_node,
                   pan_offset, pan_drag, io>>

Triple(subject, predicate, object, severity) ==
    [node_name |-> subject, edge_name |-> predicate, name_of_component |-> object,
     severity |-> severity]

\* All sequences over S of length at most k.
SeqsUpTo(S, k) == UNION {[1..j -> S] : j \in 0..k}

\* The results of std::rand() of one layout: stream s of a bounded sample of
\* the streams the generator can produce, two results per node.
RandStream(s) == [i \in 0..9 |-> <<(7919 * s + 104729 * i) % 32768,
                                   (1237 * s + 15485863 * i) % 32768>>]

Layouts == {RandStream(s) : s \in 1..NumLayouts}

\* A visualizer into which nothing has been loaded yet.
Fresh == ret.op = "GraphVisualizer"

(***************************************************************************)
(* Spec: the operations in any order, with reloads, on small lists of     *)
(* different triples.                                                      *)
(***************************************************************************)
GeneralTriples ==
    {Triple("a", "p", "b", "high"), Triple("b", "q", "c", "low"),
     Triple("c", "p", "c", "")}

TripleLists ==
    {l \in SeqsUpTo(GeneralTriples, MaxTriples) :
        \A i, j \in DOMAIN l : i # j => l[i] # l[j]}

Rebuild == \E triples \in TripleLists : LoadTriples(triples, RandStream(1))

Compute == calculatePageRank

Step == UpdatePhysics

Predict == \E node_index \in -1..Size(nodes) : predictLinksForNode(node_index)

Next == Rebuild \/ Compute \/ Step \/ Predict

Spec == Init /\ [][Next]_vars

(***************************************************************************)
(* SpecBuild: one LoadTriples of any list of triples over three labels.    *)
(***************************************************************************)
BuildLabels == {"a", "b", "c"}

BuildTriples == {Triple(x, "p", y, "medium") : x, y \in BuildLabels}

BuildLists == SeqsUpTo(BuildTriples, MaxBuildTriples)

Build == Fresh /\ \E triples \in BuildLists, rnd \in Layouts : LoadTriples(triples, rnd)

NextBuild == Build

SpecBuild == Init /\ [][NextBuild]_vars

(***************************************************************************)
(* Graphs on five labels, given by a set of label pairs: the triples list  *)
(* the pairs in a fixed order, optionally after one self-referential       *)
(* triple per label (which makes every label a node, connected or not).    *)
(***************************************************************************)
Labels == <<"a", "b", "c", "d", "e">>

Severities == <<"high", "medium", "low">>

PairList ==
    <<<<1, 2>>, <<1, 3>>, <<1, 4>>, <<1, 5>>, <<2, 3>>, <<2, 4>>, <<2, 5>>,
      <<3, 4>>, <<3, 5>>, <<4, 5>>>>

PairTriple(k) ==
    Triple(Labels[PairList[k][1]], "p", Labels[PairList[k][2]], Severities[(k % 3) + 1])

SelfTriples == [i \in 1..Len(Labels) |-> Triple(Labels[i], "self", Labels[i], "")]

PairTriples(S) == [k \in 1..Cardinality(S) |-> PairTriple(Ascending(S)[k])]

GraphLists(max_edges) ==
    {prefix \o PairTriples(S) :
        prefix \in {<<>>, SelfTriples},
        S \in {T \in SUBSET (1..Len(PairList)) : Cardinality(T) <= max_edges}}

(***************************************************************************)
(* SpecRank: one graph is loaded and calculatePageRank is called.          *)
(***************************************************************************)
LoadRanked ==
    Fresh /\ \E triples \in GraphLists(MaxRankEdges) : LoadTriples(triples, RandStream(1))

NextRank == LoadRanked \/ Compute

SpecRank == Init /\ [][NextRank]_vars

(***************************************************************************)
(* SpecPredict: one graph is loaded and predictLinksForNode is called.     *)
(***************************************************************************)
LoadQueried ==
    Fresh /\ \E triples \in GraphLists(MaxPredictEdges) : LoadTriples(triples, RandStream(1))

NextPredict == LoadQueried \/ Predict

SpecPredict == Init /\ [][NextPredict]_vars

(***************************************************************************)
(* SpecPhysics: two nodes joined by one edge, placed at chosen points of   *)
(* the layout rectangle, then UpdatePhysics.                               *)
(***************************************************************************)
BaseList == <<<<0, 0>>, <<37, 250>>, <<400, 10>>, <<3, 3>>>>

OffsetList ==
    <<<<101, 0>>, <<0, 105>>, <<108, 0>>, <<109, 0>>, <<0, 110>>, <<60, 81>>,
      <<65, 87>>, <<66, 87>>, <<150, 120>>, <<199, 140>>, <<50, 0>>, <<0, 100>>,
      <<87, 66>>>>

\* std::rand() results that put one node at base and the other at base + offset.
Placement(base, offset, swap) ==
    IF swap
    THEN (0 :> <<base[1] + offset[1], base[2] + offset[2]>>) @@ (1 :> base)
    ELSE (0 :> base) @@ (1 :> <<base[1] + offset[1], base[2] + offset[2]>>)

Placements ==
    {Placement(BaseList[b], OffsetList[o], swap) :
        b \in 1..NumBases, o \in 1..NumOffsets, swap \in BOOLEAN}

PlacePair ==
    Fresh /\ \E rnd \in Placements : LoadTriples(<<Triple("a", "p", "b", "high")>>, rnd)

NextPhysics == PlacePair \/ Step

SpecPhysics == Init /\ [][NextPhysics]_vars

(***************************************************************************)
(* The frames of the main loop.  A frame's input is a gesture: where the   *)
(* mouse is, which buttons are down, whether the mouse has moved past the  *)
(* drag threshold since the press, the wheel, and the widget button        *)
(* released over.  Clicks and releases follow from the previous frame.     *)
(***************************************************************************)

\* The graph the main loop shows: a and b joined by an edge, c on its own.
ShownTriples == <<Triple("a", "p", "b", "high"), Triple("c", "p", "c", "")>>

\* The position LoadTriples gives node i of the graph shown.
ShownPosition(i) == RandomPosition(RandStream(1)[i][1], RandStream(1)[i][2])

\* ImGui::GetCursorScreenPos() in the canvas and ImGui::GetContentRegionAvail().
CursorScreenPos == ImVec2(FromInt(8), FromInt(54))

ContentRegionAvail == ImVec2(FromInt(1264), FromInt(640))

\* The screen point of a world point while nothing is panned.
ScreenPoint(world) ==
    ImVec2(FAdd(CursorScreenPos.x, world.x), FAdd(CursorScreenPos.y, world.y))

\* Where the mouse may be: on node a, on node b, on empty canvas, and on the
\* row of buttons above the canvas.
EmptyPoint == ScreenPoint(ImVec2(FromInt(40), FromInt(40)))

ButtonPoint == ImVec2(FromInt(40), FromInt(30))

MousePoints ==
    {ScreenPoint(ShownPosition(0)), ScreenPoint(ShownPosition(1)), EmptyPoint, ButtonPoint}

Gestures ==
    {g \in [pos : MousePoints, down0 : BOOLEAN, down1 : BOOLEAN, moved : BOOLEAN,
            wheel : {0, 1}, button : {"", "Reset Layout", "Clear Selection"}] :
        /\ g.moved => g.down0 \/ g.down1
        /\ g.down1 => ~g.down0 /\ g.pos = EmptyPoint /\ g.wheel = 0
        /\ g.wheel # 0 => ~g.down0 /\ g.pos = EmptyPoint
        /\ g.pos = ButtonPoint => ~g.moved
        /\ g.button # "" => g.pos = ButtonPoint /\ ~g.down0}

\* The input state of the frame after prev, for gesture g.  A widget button
\* reports a press in the frame the mouse button is released over it.
Frame(prev, g) ==
    [frame |-> prev.frame + 1,
     MousePos |-> g.pos,
     down0 |-> g.down0,
     down1 |-> g.down1,
     clicked0 |-> g.down0 /\ ~prev.down0,
     clicked1 |-> g.down1 /\ ~prev.down1,
     released0 |-> ~g.down0 /\ prev.down0,
     dragging0 |-> g.down0 /\ prev.down0 /\ g.moved,
     dragging1 |-> g.down1 /\ prev.down1 /\ g.moved,
     MouseWheel |-> FromInt(g.wheel),
     MouseWheelH |-> FZero(0),
     button |-> IF prev.down0 THEN g.button ELSE "",
     CursorScreenPos |-> CursorScreenPos,
     canvas_size |-> ContentRegionAvail]

\* glfwPollEvents and the NewFrame calls: the input of the next frame.
NewFrame ==
    /\ io.frame < MaxFrames
    /\ \E g \in Gestures : io' = Frame(io, g)
    /\ ret' = [op |-> "NewFrame"]
    /\ UNCHANGED <<nodes, edges, adjacency_matrix, adjacency_list, page_rank_scores,
                   page_rank_average, page_rank_std_dev, selected_node, velocities,
                   pan_offset, pan_drag, steps>>

(***************************************************************************)
(* SpecMain: main.  The triples are loaded and ranked, then every frame    *)
(* polls the input, calls UpdatePhysics and then Render.                   *)
(***************************************************************************)
MainLoad == Fresh /\ LoadTriples(ShownTriples, RandStream(1))

MainRank == ret.op = "LoadTriples" /\ calculatePageRank

MainPoll == ret.op \in {"calculatePageRank", "Render"} /\ NewFrame

MainPhysics == ret.op = "NewFrame" /\ UpdatePhysics

MainRender == ret.op = "UpdatePhysics" /\ Render(RandStream(2))

NextMain == MainLoad \/ MainRank \/ MainPoll \/ MainPhysics \/ MainRender

SpecMain == Init /\ [][NextMain]_vars

(***************************************************************************)
(* SpecPinned: the graph is loaded and frames are drawn, which pins and    *)
(* releases nodes; then UpdatePhysics, calculatePageRank and               *)
(* predictLinksForNode are called in any order.                            *)
(***************************************************************************)
PinnedPoll == ret.op \in {"LoadTriples", "Render"} /\ NewFrame

PinnedRender == ret.op = "NewFrame" /\ Render(RandStream(2))

FramesDone == ret.op \notin {"GraphVisualizer", "LoadTriples", "NewFrame"}

PinnedStep == FramesDone /\ UpdatePhysics

PinnedRank == FramesDone /\ calculatePageRank

PinnedQuery == FramesDone /\ predictLinksForNode(selected_node)

NextPinned ==
    MainLoad \/ PinnedPoll \/ PinnedRender \/ PinnedStep \/ PinnedRank \/ PinnedQuery

SpecPinned == Init /\ [][NextPinned]_vars

(***************************************************************************)
(* SpecWeights: one LoadTriples of a list of triples between a and b (in   *)
(* both directions), from b to c and from c to itself, of every severity,  *)
(* the unknown severity "" included.                                       *)
(***************************************************************************)
WeightSeverities == {"high", "medium", "low", ""}

WeightTriples ==
    {Triple(e[1], "p", e[2], severity) :
        e \in {<<"a", "b">>, <<"b", "a">>, <<"b", "c">>, <<"c", "c">>},
        severity \in WeightSeverities}

WeightLists == SeqsUpTo(WeightTriples, MaxWeightTriples)

LoadWeighted ==
    Fresh /\ \E triples \in WeightLists : LoadTriples(triples, RandStream(1))

NextWeights == LoadWeighted

SpecWeights == Init /\ [][NextWeights]_vars

(***************************************************************************)
(* Properties of LoadTriples                                               *)
(***************************************************************************)

\* C1: after LoadTriples every node's connection_count equals the number of
\* distinct neighbours in its adjacency set, however many triples join the
\* same pair of nodes.
ConnectionCountIsDegree ==
    ret.op = "LoadTriples" =>
        \A i \in DOMAIN nodes :
            nodes[i].connection_count = Cardinality(adjacency_list[i])

ZeroVelocities == [i \in DOMAIN nodes |-> ImVec2(FZero(0), FZero(0))]

\* C2: after LoadTriples, whatever preceded it, the rank table is cleared (no
\* scores, and the average and standard deviation back at their initial 0) and
\* there is one zero velocity per node of the new graph.
RebuildClearsRankTable ==
    ret.op = "LoadTriples" =>
        /\ page_rank_scores = <<>>
        /\ page_rank_average = FZero(0)
        /\ page_rank_std_dev = FZero(0)
        /\ velocities = ZeroVelocities

\* C3: LoadTriples of an empty list leaves no nodes, no edges and no scores;
\* on a graph without nodes calculatePageRank leaves the score map empty,
\* UpdatePhysics changes nothing and predictLinksForNode returns an empty
\* vector for every index.
EmptyGraphIsInert ==
    [][/\ (ret'.op = "LoadTriples" /\ ret'.triples = <<>>) =>
              (Size(nodes') = 0 /\ Size(edges') = 0 /\ page_rank_scores' = <<>>)
       /\ (Size(nodes) = 0 /\ ret'.op = "calculatePageRank") =>
              (page_rank_scores' = <<>> /\ Size(nodes') = 0)
       /\ (Size(nodes) = 0 /\ ret'.op = "UpdatePhysics") =>
              UNCHANGED <<nodes, edges, adjacency_matrix, adjacency_list,
                          page_rank_scores, page_rank_average, page_rank_std_dev,
                          selected_node, velocities, pan_offset, pan_drag>>
       /\ (Size(nodes) = 0 /\ ret'.op = "predictLinksForNode") =>
              ret'.predictions = <<>>]_vars

\* A query answered on a graph emptied by LoadTriples: the statistics left
\* from calculatePageRank show that a graph with nodes preceded it.
EmptiedGraphQueried ==
    /\ ret.op = "predictLinksForNode"
    /\ ret.predictions = <<>>
    /\ Size(nodes) = 0
    /\ page_rank_std_dev.m # 0

\* The labels of a triple list in the order they are mentioned: subject, then
\* object, of each triple.
Mentions(triples) ==
    [k \in 1..(2 * Len(triples)) |->
        IF k % 2 = 1 THEN triples[(k + 1) \div 2].node_name
        ELSE triples[k \div 2].name_of_component]

MentionedLabels(triples) == {Mentions(triples)[k] : k \in 1..(2 * Len(triples))}

FirstMention(triples, label) ==
    CHOOSE k \in 1..(2 * Len(triples)) :
        /\ Mentions(triples)[k] = label
        /\ \A j \in 1..(k - 1) : Mentions(triples)[j] # label

\* C4: LoadTriples makes exactly one node per distinct label of a subject or
\* object field, with indices 0..N-1 in the order of first mention, and no two
\* nodes share a label.
NodesInFirstSeenOrder ==
    ret.op = "LoadTriples" =>
        /\ DOMAIN nodes = 0..(Cardinality(MentionedLabels(ret.triples)) - 1)
        /\ {nodes[i].label : i \in DOMAIN nodes} = MentionedLabels(ret.triples)
        /\ \A i, j \in DOMAIN nodes :
               i < j => /\ nodes[i].label # nodes[j].label
                        /\ FirstMention(ret.triples, nodes[i].label)
                             < FirstMention(ret.triples, nodes[j].label)

\* Three nodes in the order b, c, a: b occurs in a self-referential triple
\* only, a is first seen as an object.
SelfLabelFirstLoaded ==
    /\ ret.op = "LoadTriples"
    /\ ret.triples = <<Triple("b", "p", "b", "medium"), Triple("c", "p", "a", "medium"),
                       Triple("a", "p", "c", "medium")>>
    /\ Size(nodes) = 3
    /\ nodes[0].label = "b" /\ nodes[1].label = "c" /\ nodes[2].label = "a"

SubjectIsNotObject(triple) == triple.node_name # triple.name_of_component

\* C5: the edge list holds one edge per triple whose subject and object
\* differ, in triple order, repeated triples included, and none for a
\* self-referential triple; every edge has from != to, both in 0..N-1; the
\* adjacency sets are symmetric and irreflexive.
EdgesFollowTriples ==
    ret.op = "LoadTriples" =>
        LET kept == SelectSeq(ret.triples, SubjectIsNotObject) IN
        /\ DOMAIN edges = 0..(Len(kept) - 1)
        /\ \A k \in DOMAIN edges :
               /\ nodes[edges[k].from].label = kept[k + 1].node_name
               /\ nodes[edges[k].to].label = kept[k + 1].name_of_component
               /\ edges[k].predicate = kept[k + 1].edge_name
               /\ edges[k].from # edges[k].to
               /\ edges[k].from \in DOMAIN nodes
               /\ edges[k].to \in DOMAIN nodes
        /\ DOMAIN adjacency_list = DOMAIN nodes
        /\ \A i, j \in DOMAIN nodes :
               /\ j \in adjacency_list[i] <=> i \in adjacency_list[j]
               /\ i \notin adjacency_list[i]

\* A repeated triple around a self-referential one: two edges, both 0 -> 1.
RepeatedTripleLoaded ==
    /\ ret.op = "LoadTriples"
    /\ ret.triples = <<Triple("a", "p", "b", "medium"), Triple("c", "p", "c", "medium"),
                       Triple("a", "p", "b", "medium")>>
    /\ Size(edges) = 2
    /\ edges[0] = edges[1]
    /\ adjacency_list[2] = {}

(***************************************************************************)
(* Properties of UpdatePhysics.  Distances are compared exactly: a         *)
(* coordinate between 64 and 1024 is a whole number of units of 2^-17, and *)
(* squared distances are formed on bit strings.                            *)
(***************************************************************************)

\* A coordinate in units of 2^-17.
Units(a) == a.m * 2^(a.e + 17)

Magnitude(k) == IF k < 0 THEN -k ELSE k

\* The square of n < 2^27, least significant bit first.
SquareBits(n) ==
    AddBits(AddBits(Zeros(28) \o BitsOf((n \div 16384) * (n \div 16384), 26),
                    Zeros(14) \o BitsOf(2 * (n \div 16384) * (n % 16384), 28)),
            BitsOf((n % 16384) * (n % 16384), 28))

\* The squared distance of two points, in units of 2^-34.
DistSq(p, q) ==
    AddBits(SquareBits(Magnitude(Units(p.x) - Units(q.x))),
            SquareBits(Magnitude(Units(p.y) - Units(q.y))))

\* The square of a whole distance d, in units of 2^-34.
WholeSq(d) == Zeros(34) \o BitsOf(d * d, 20)

DifferingBits(x, y, n) ==
    {i \in 1..n : (x \o Zeros(n - Len(x)))[i] # (y \o Zeros(n - Len(y)))[i]}

\* x < y as natural numbers
BitsLess(x, y) ==
    /\ DifferingBits(x, y, Len(x) + Len(y)) # {}
    /\ Highest(DifferingBits(x, y, Len(x) + Len(y))) <= Len(y)
    /\ y[Highest(DifferingBits(x, y, Len(x) + Len(y)))] = 1

\* Two nodes joined by one edge, neither being dragged, both at rest.
PairAtRest ==
    /\ Size(nodes) = 2
    /\ Size(edges) = 1
    /\ \A i \in DOMAIN nodes : ~nodes[i].dragging
    /\ velocities = ZeroVelocities

\* One UpdatePhysics has moved both nodes and brought them strictly closer.
MovedCloser ==
    /\ BitsLess(DistSq(nodes[0].position', nodes[1].position'),
                DistSq(nodes[0].position, nodes[1].position))
    /\ \A i \in DOMAIN nodes : nodes[i].position' # nodes[i].position

\* C6 as stated: for two nodes joined by one edge, at rest, at any distance
\* d > 100, one UpdatePhysics moves both nodes strictly closer together.
PairBeyondRestLengthCloses ==
    [][(/\ ret'.op = "UpdatePhysics"
        /\ PairAtRest
        /\ BitsLess(WholeSq(100), DistSq(nodes[0].position, nodes[1].position)))
          => MovedCloser]_vars

\* C6 as amended: for two nodes joined by one edge, at rest, at a distance
\* d >= 109 in the layout rectangle, one UpdatePhysics moves both nodes
\* strictly closer together.
PairBeyond109Closes ==
    [][(/\ ret'.op = "UpdatePhysics"
        /\ PairAtRest
        /\ ~BitsLess(DistSq(nodes[0].position, nodes[1].position), WholeSq(109)))
          => MovedCloser]_vars

\* The pair placed at (100, 100) and (209, 100) after one UpdatePhysics: both
\* nodes have moved inwards along the x axis.
PairAt109Stepped ==
    /\ ret.op = "UpdatePhysics"
    /\ steps = 1
    /\ Size(nodes) = 2
    /\ nodes[0].position.y = FromInt(100) /\ nodes[1].position.y = FromInt(100)
    /\ FGt(nodes[0].position.x, FromInt(100)) /\ FLt(nodes[0].position.x, FromInt(101))
    /\ FGt(nodes[1].position.x, FromInt(208)) /\ FLt(nodes[1].position.x, FromInt(209))
    /\ FGt(velocities[0].x, FZero(0)) /\ FLt(velocities[1].x, FZero(0))

(***************************************************************************)
(* Properties of predictLinksForNode                                       *)
(***************************************************************************)

\* The nodes that share a neighbour with q and are neither q nor a neighbour.
Candidates(q) ==
    {c \in DOMAIN nodes :
        /\ c # q
        /\ c \notin adjacency_list[q]
        /\ adjacency_list[c] \cap adjacency_list[q] # {}}

InRange(q) == q >= 0 /\ q < Size(nodes)

\* C7: for an in-range query q, predictLinksForNode returns exactly one entry
\* per candidate (a node sharing a neighbour with q, not q, not adjacent to
\* q) and no other, in non-increasing score order, every score in (0, 1], the
\* first exactly 1.0 and of tier "Strong".
PredictionsAreCandidates ==
    (ret.op = "predictLinksForNode" /\ InRange(ret.node_index)) =>
        LET preds == ret.predictions IN
        /\ DOMAIN preds = 0..(Cardinality(Candidates(ret.node_index)) - 1)
        /\ {preds[k].first : k \in DOMAIN preds} = Candidates(ret.node_index)
        /\ \A k, l \in DOMAIN preds : k < l => FGe(preds[k].second, preds[l].second)
        /\ \A k \in DOMAIN preds :
               FGt(preds[k].second, FZero(0)) /\ ~FGt(preds[k].second, FromInt(1))
        /\ Size(preds) > 0 =>
               /\ preds[0].second = FromInt(1)
               /\ getConceptualMeaning(preds[0].second) = "Strong"

\* A query with two candidates of different scores, the larger one first.
UnequalCandidatesReturned ==
    /\ ret.op = "predictLinksForNode"
    /\ InRange(ret.node_index)
    /\ Size(ret.predictions) = 2
    /\ ret.predictions[0].second = FromInt(1)
    /\ FLt(ret.predictions[1].second, ret.predictions[0].second)

\* The queries for which nothing can be predicted: out of range (which
\* includes every query on an empty graph), no neighbours, or no node within
\* two hops that is not a direct neighbour already.
NothingToPredict(q) ==
    IF ~InRange(q) THEN TRUE
    ELSE \/ adjacency_list[q] = {}
         \/ \A n \in adjacency_list[q] :
                \A c \in adjacency_list[n] : c = q \/ c \in adjacency_list[q]

\* C8: predictLinksForNode returns an empty vector and changes no graph, rank
\* or layout state when the index is out of range, the graph is empty, the
\* node has no neighbours, or every node within two hops is a neighbour.
NothingToPredictIsEmpty ==
    [][(ret'.op = "predictLinksForNode" /\ NothingToPredict(ret'.node_index)) =>
           /\ Size(ret'.predictions) = 0
           /\ UNCHANGED <<nodes, edges, adjacency_matrix, adjacency_list,
                          page_rank_scores, page_rank_average, page_rank_std_dev,
                          selected_node, velocities, pan_offset, pan_drag>>]_vars

\* A query on a node of a triangle: both nodes within two hops are
\* neighbours, and nothing is predicted.
TriangleQueried ==
    /\ ret.op = "predictLinksForNode"
    /\ ret.node_index = 0
    /\ Size(nodes) = 3
    /\ adjacency_list[0] = {1, 2}
    /\ 2 \in adjacency_list[1]
    /\ Size(ret.predictions) = 0

(***************************************************************************)
(* Properties of calculatePageRank                                         *)
(***************************************************************************)

\* Every node has the same number of distinct neighbours.
Regular ==
    \A i, j \in DOMAIN nodes :
        Cardinality(adjacency_list[i]) = Cardinality(adjacency_list[j])

Ranked == ret.op = "calculatePageRank" /\ Size(nodes) > 0

EqualScores == \A i, j \in DOMAIN nodes : page_rank_scores[i] = page_rank_scores[j]

AllMedium == \A i \in DOMAIN nodes : getPageRankMeaning(page_rank_scores[i]) = "Medium"

\* C9 as stated: on a graph whose nodes all have the same number of
\* neighbours, calculatePageRank gives every node the same score and a
\* standard deviation of 0, and getPageRankMeaning is "Medium" for every node.
RegularGraphHasZeroDeviation ==
    (Ranked /\ Regular) => (EqualScores /\ page_rank_std_dev.m = 0 /\ AllMedium)

\* 2^-23, two units in the last place of a score below 1.
RoundingResidue == [s |-> 0, m |-> 8388608, e |-> -46]

\* C9 as amended: on such a graph every node gets the same score and
\* getPageRankMeaning is "Medium" for every node; the standard deviation is 0
\* or a rounding residue of at most 2^-23.
RegularGraphIsMedium ==
    (Ranked /\ Regular) =>
        (EqualScores /\ ~FGt(page_rank_std_dev, RoundingResidue) /\ AllMedium)

\* The triangle ranked: equal scores, a standard deviation that is not 0.
TriangleRanked ==
    /\ Ranked
    /\ Regular
    /\ Size(nodes) = 3
    /\ adjacency_list[0] = {1, 2}
    /\ page_rank_std_dev.m # 0

BaseRank == FSub(FromInt(1), damping_factor)

IsolatedAtBase ==
    \A i \in DOMAIN nodes : adjacency_list[i] = {} => page_rank_scores[i] = BaseRank

\* C10 as stated: every score calculatePageRank produces lies in [0, 1], and
\* the score of a node without neighbours is exactly 1 - damping.
ScoresWithinUnitInterval ==
    Ranked =>
        /\ \A i \in DOMAIN nodes :
               FGe(page_rank_scores[i], FZero(0)) /\ ~FGt(page_rank_scores[i], FromInt(1))
        /\ IsolatedAtBase

\* C10 as amended: every score is at least the base value 1.0f - damping_factor
\* and less than the number of nodes, and the score of a node without
\* neighbours is exactly that base value.
ScoresBetweenBaseAndNodeCount ==
    Ranked =>
        /\ \A i \in DOMAIN nodes :
               /\ FGe(page_rank_scores[i], BaseRank)
               /\ FLt(page_rank_scores[i], FromInt(Size(nodes)))
        /\ IsolatedAtBase

\* A ranked graph with an isolated node at the base value and a node whose
\* score exceeds 1.
IsolatedAndAboveOneRanked ==
    /\ Ranked
    /\ \E i \in DOMAIN nodes : adjacency_list[i] = {} /\ page_rank_scores[i] = BaseRank
    /\ \E i \in DOMAIN nodes : FGt(page_rank_scores[i], FromInt(1))

(***************************************************************************)
(* Properties of the main loop and of pinned nodes                         *)
(***************************************************************************)

\* What UpdatePhysics may not touch in a node: everything but its position.
Fixed(node) == [node EXCEPT !.position = ImVec2(FZero(0), FZero(0))]

\* C11: UpdatePhysics changes nothing but the positions and velocities of
\* the nodes that are not pinned: a pinned (dragging) node keeps its position
\* and its velocity, and the node set, labels, edges, adjacency matrix and
\* sets, connection counts and rank table stay as they are; and neither
\* calculatePageRank nor predictLinksForNode changes a position, a velocity or
\* the topology.
StepMovesOnlyUnpinned ==
    [][/\ ret'.op = "UpdatePhysics" =>
              /\ UNCHANGED <<edges, adjacency_matrix, adjacency_list, page_rank_scores,
                             page_rank_average, page_rank_std_dev>>
              /\ DOMAIN nodes' = DOMAIN nodes
              /\ DOMAIN velocities' = DOMAIN velocities
              /\ \A i \in DOMAIN nodes :
                     /\ Fixed(nodes'[i]) = Fixed(nodes[i])
                     /\ nodes[i].dragging =>
                            /\ nodes'[i].position = nodes[i].position
                            /\ velocities'[i] = velocities[i]
       /\ ret'.op \in {"calculatePageRank", "predictLinksForNode"} =>
              UNCHANGED <<nodes, velocities, edges, adjacency_matrix, adjacency_list>>]_vars

\* UpdatePhysics has run on a graph in which one end of the edge is pinned and
\* the other is not, and has moved the node that is not pinned.
PinnedEndStepped ==
    /\ ret.op = "UpdatePhysics"
    /\ Size(nodes) = 3
    /\ nodes[1].dragging
    /\ ~nodes[0].dragging
    /\ velocities[0] # ImVec2(FZero(0), FZero(0))
    /\ velocities[1] = ImVec2(FZero(0), FZero(0))

\* The nodes with every dragging flag cleared.
Unpinned(ns) == [i \in DOMAIN ns |-> [ns[i] EXCEPT !.dragging = FALSE]]

\* C12: in UpdatePhysics a pinned node acts on the other nodes as a
\* stationary target: every node that is not pinned gets the velocity it
\* would get from the same positions if no node were pinned, the repulsion
\* from the pinned nodes and the pull of the edges to them included.
PinnedNodesStillExertForces ==
    [][ret'.op = "UpdatePhysics" =>
          \A i \in DOMAIN nodes :
              ~nodes[i].dragging =>
                  velocities'[i] =
                      PhysicsStep(Unpinned(nodes), edges, velocities).velocities[i]]_vars

\* Node i is one the input of the current frame pins: a left click on it
\* while it is not pinned.  The mouse is over the node before UpdatePhysics
\* and after it, where Render sets the dragging flag.
PinnedByInput(i) ==
    /\ io.clicked0
    /\ ~nodes[i].dragging
    /\ MouseOver(View, io, i)
    /\ MouseOver([nodes |-> nodes', pan_offset |-> pan_offset], io, i)

\* Node i is one the input of the current frame releases.
ReleasedByInput(i) == io.released0 /\ nodes[i].dragging

\* The position UpdatePhysics gives node i when the node is not pinned.
Integrated(i) ==
    PhysicsStep([nodes EXCEPT ![i].dragging = FALSE], edges, velocities).nodes[i].position

\* C13: in every frame of the main loop the pin state that the frame's input
\* brings is in force when the frame's UpdatePhysics runs: the step does not
\* move a node the input pins, and it integrates a node the input releases.
InputAppliedBeforePhysics ==
    [][(ret.op = "NewFrame" /\ ret'.op = "UpdatePhysics") =>
          \A i \in DOMAIN nodes :
              /\ PinnedByInput(i) =>
                     nodes'[i].position = nodes[i].position
              /\ ReleasedByInput(i) => nodes'[i].position = Integrated(i)]_vars

(***************************************************************************)
(* Properties of predictLinksForNode and of the adjacency matrix           *)
(***************************************************************************)

\* The neighbours the query q and the candidate m have in common.
CommonNeighbours(q, m) == adjacency_list[q] \cap adjacency_list[m]

\* C14: the score of a candidate depends only on the common neighbours it is
\* reached through (each adds a weight given by the size of its own
\* adjacency set) and not on the candidate's own degree: two candidates with
\* the same set of common neighbours with the query get equal scores.
CommonNeighboursDecideScore ==
    (ret.op = "predictLinksForNode" /\ InRange(ret.node_index)) =>
        \A k, l \in DOMAIN ret.predictions :
            CommonNeighbours(ret.node_index, ret.predictions[k].first)
              = CommonNeighbours(ret.node_index, ret.predictions[l].first)
                => ret.predictions[k].second = ret.predictions[l].second

\* The positions in the list of the triples that join the nodes i and j, in
\* either direction.
Joining(triples, i, j) ==
    {k \in 1..Len(triples) :
        {triples[k].node_name, triples[k].name_of_component}
            = {nodes[i].label, nodes[j].label}}

Last(S) == CHOOSE k \in S : \A l \in S : l <= k

\* The weight the severity table gives: high 0.8, medium 0.4, low 0.1 and
\* anything else 0.
TableWeight(severity) ==
    CASE severity = "high" -> FLit(8, 10)
      [] severity = "medium" -> FLit(4, 10)
      [] severity = "low" -> FLit(1, 10)
      [] OTHER -> FZero(0)

\* C15: after LoadTriples the adjacency matrix is symmetric; for distinct
\* nodes i and j joined by at least one triple (in either direction) it holds
\* the weight of the last such triple of the list, and j is in the adjacency
\* set of i even when that weight is 0; the diagonal and the pairs no triple
\* joins hold 0 and are not adjacent.
LastTripleDecidesWeight ==
    ret.op = "LoadTriples" =>
        \A i, j \in DOMAIN nodes :
            /\ adjacency_matrix[i][j] = adjacency_matrix[j][i]
            /\ IF i # j /\ Joining(ret.triples, i, j) # {}
               THEN /\ adjacency_matrix[i][j] =
                           TableWeight(ret.triples[Last(Joining(ret.triples, i, j))].severity)
                    /\ j \in adjacency_list[i]
               ELSE /\ adjacency_matrix[i][j] = FZero(0)
                    /\ j \notin adjacency_list[i]

\* a and b are joined first with severity "high" and then, in the other
\* direction, with an unknown severity: the weight is 0, the nodes adjacent.
UnknownSeverityLoadedLast ==
    /\ ret.op = "LoadTriples"
    /\ ret.triples = <<Triple("a", "p", "b", "high"), Triple("b", "p", "a", "")>>
    /\ adjacency_matrix[0][1] = FZero(0)
    /\ adjacency_list[0] = {1}


====
